---- MODULE Spec2Model ----
(***************************************************************************)
(* The Secret Spot API (src/main.py): a FastAPI process that keeps one     *)
(* JSON document (content.json) and serves six endpoints over it.          *)
(*                                                                         *)
(* Scheduling.  The three upload handlers are `async def`: their bodies    *)
(* run on the single event-loop thread of the process and give the loop up *)
(* only at an `await` (the one `await file.read()` of the local-storage    *)
(* branch).  get_content, get_gallery and delete_gallery_image are plain   *)
(* `def`: each runs on its own thread-pool thread and interleaves freely   *)
(* with everything else.  LOCK is a non-reentrant threading.Lock that is   *)
(* held for the body of load_content and for the body of save_content,     *)
(* and is free between the two calls of a handler.                         *)
(*                                                                         *)
(* Values.  Python None is Null; a URL, a public_id and a gallery id are   *)
(* positive numbers (uuid4 and the media service hand out fresh ones).     *)
(***************************************************************************)
EXTENDS Integers, Sequences, FiniteSets, TLC

\* ------------------------------------------------------------- bounds
\* Requests that may be in flight at the same time (request slots).
MaxConc == 2
\* Requests received over the lifetime of the process.
MaxRequests == 2
\* The same, for a client that sends one request at a time.
MaxSeqRequests == 4

Workers == 1..MaxConc

\* ------------------------------------------------------ program constants
\* Python None / JSON null.
Null == 0

\* The keys of DEFAULT_CONTENT["slots"].
FixedSlotKeys ==
    {"servicio_1", "servicio_2", "servicio_3", "servicio_4", "about_img",
     "team_group", "staff_1", "staff_2", "staff_3", "staff_4", "staff_5",
     "staff_6"}

\* The module-level dict literal, as it is right after import.
DefaultContentLiteral ==
    [heroVideo |-> Null,
     slots     |-> [k \in FixedSlotKeys |-> Null],
     gallery   |-> << >>]

\* VALID_SLOTS = set(DEFAULT_CONTENT["slots"].keys()), evaluated once at import.
VALID_SLOTS == DOMAIN DefaultContentLiteral.slots

\* The closed list of gallery categories of upload_gallery_image.
ValidCategories == {"damas", "caballeros", "ninos", "manicura", "pedicura"}

\* The endpoints.
UploadOps == {"upload_hero_video", "upload_slot_image", "upload_gallery_image"}
ReadOps == {"get_content", "get_gallery"}
MutatingOps == UploadOps \cup {"delete_gallery_image"}
Ops == ReadOps \cup MutatingOps

\* ------------------------------------------------------------ JSON file
\* A JSON value of the document: null, or a string.
JsonVal(v) == IF v = Null THEN <<"null">> ELSE <<"s", v>>
PyVal(jv) == IF jv = <<"null">> THEN Null ELSE jv[2]

\* A gallery item as a JSON object (its four members) and back.
JsonItem(it) == <<it.id, it.url, it.public_id, it.category>>
PyItem(ji) == [id |-> ji[1], url |-> ji[2], public_id |-> ji[3], category |-> ji[4]]

\* The file: absent, not parseable, or a JSON object.  An object member that
\* is missing is << >>, one that is present is <<value>>; the "slots" object
\* is its set of members <<key, value>>.
AbsentFile == [kind |-> "absent", hero |-> << >>, slots |-> << >>, gallery |-> << >>]
CorruptFile == [kind |-> "corrupt", hero |-> << >>, slots |-> << >>, gallery |-> << >>]

\* json.dump(data, f): every key of the dict is written.
json_dump(data) ==
    [kind    |-> "json",
     hero    |-> << JsonVal(data.heroVideo) >>,
     slots   |-> << {<<k, JsonVal(data.slots[k])>> : k \in DOMAIN data.slots} >>,
     gallery |-> << [i \in 1..Len(data.gallery) |-> JsonItem(data.gallery[i])] >>]

\* json.load(f) of a JSON object: the dict with the keys the object has
\* (`keys`); a field of the record whose key is not in `keys` is not there.
json_load(f) ==
    LET ms == IF f.slots = << >> THEN {} ELSE f.slots[1]
        ks == {m[1] : m \in ms}
    IN  [keys      |-> {k \in {"heroVideo"} : f.hero # << >>}
                       \cup {k \in {"slots"} : f.slots # << >>}
                       \cup {k \in {"gallery"} : f.gallery # << >>},
         heroVideo |-> IF f.hero = << >> THEN Null ELSE PyVal(f.hero[1]),
         slots     |-> [k \in ks |-> PyVal((CHOOSE m \in ms : m[1] = k)[2])],
         gallery   |-> IF f.gallery = << >> THEN << >>
                       ELSE [i \in 1..Len(f.gallery[1]) |-> PyItem(f.gallery[1][i])]]

\* DEFAULT_CONTENT seen as a json.load result (all three keys present).
AsLoaded(d) ==
    [keys |-> {"heroVideo", "slots", "gallery"}, heroVideo |-> d.heroVideo,
     slots |-> d.slots, gallery |-> d.gallery]

\* The merge written with an assignment in place of setdefault.
merge_defaults_assign(raw, dflt) ==
    [heroVideo |-> IF "heroVideo" \in raw.keys THEN raw.heroVideo ELSE Null,
     slots     |-> [k \in (IF "slots" \in raw.keys THEN DOMAIN raw.slots ELSE {})
                          \cup (DOMAIN dflt.slots) |->
                        IF k \in DOMAIN dflt.slots THEN dflt.slots[k] ELSE raw.slots[k]],
     gallery   |-> IF "gallery" \in raw.keys THEN raw.gallery ELSE << >>]

\* The merge with the test of line 82 inverted: a gallery that is there is
\* replaced by [].
merge_defaults_inverted(raw, dflt) ==
    LET s == IF "slots" \in raw.keys THEN raw.slots ELSE [k \in {} |-> Null]
    IN  [heroVideo |-> IF "heroVideo" \in raw.keys THEN raw.heroVideo ELSE Null,
         slots     |-> [k \in (DOMAIN s) \cup (DOMAIN dflt.slots) |->
                            IF k \in DOMAIN s THEN s[k] ELSE dflt.slots[k]],
         gallery   |-> << >>]

\* load_content lines 77-85: setdefault of every key of DEFAULT_CONTENT["slots"]
\* (with the value DEFAULT_CONTENT holds now), then the two missing-field defaults.
merge_defaults(raw, dflt) ==
    LET s == IF "slots" \in raw.keys THEN raw.slots ELSE [k \in {} |-> Null]
    IN  [heroVideo |-> IF "heroVideo" \in raw.keys THEN raw.heroVideo ELSE Null,
         slots     |-> [k \in (DOMAIN s) \cup (DOMAIN dflt.slots) |->
                            IF k \in DOMAIN s THEN s[k] ELSE dflt.slots[k]],
         gallery   |-> IF "gallery" \in raw.keys THEN raw.gallery ELSE << >>]

\* ---------------------------------------------------------------- state
VARIABLES
    USE_CLOUDINARY,   \* the storage choice made at import (lines 25-29)
    file,             \* CONTENT_PATH on disk
    DEFAULT_CONTENT,  \* the module-level dict object (it can be mutated)
    LOCK,             \* 0: free; r: held by request slot r
    loop,             \* 0: the event loop is idle; r: it is running handler r
    media,            \* references the media backend holds
    fresh,            \* the next number uuid4 / the media service hands out
    nreq,             \* history: requests received so far
    pc,               \* where each request is
    req,              \* the request: endpoint, token, form fields, path id
    data,             \* what the local `data` refers to: "none", "default"
                      \* (the DEFAULT_CONTENT object itself) or "own"
    own,              \* the dict json.load built for this request
    url,              \* url / public_id the Store step returned
    idx,              \* delete_gallery_image's idx
    status,           \* HTTP status of the response (0: none yet)
    body,             \* the document a read endpoint returned
    steps,            \* history: which of store/load/destroy/save the request did
    added,            \* history: ids of the items returned by upload_gallery_image
    deleted,          \* history: ids delete_gallery_image answered 200 for
    lastSaved,        \* history: << >>, or <<the dict given to the last save_content>>
    returned,         \* history: per field, the url of the last 200 update of it
    file0             \* history: the file the process started with

reqVars == <<pc, req, data, own, url, idx, status, body, steps>>
histVars == <<nreq, added, deleted, lastSaved, returned, file0>>
vars == <<USE_CLOUDINARY, file, DEFAULT_CONTENT, LOCK, loop, media, fresh,
          reqVars, histVars>>

NoDoc == [heroVideo |-> Null, slots |-> [k \in {} |-> Null], gallery |-> << >>]
NoReq == [op |-> "none", token_ok |-> FALSE, slot_key |-> "", category |-> "",
          item_id |-> Null]

\* Form values the model sends with an authorized request; a request with a
\* wrong token carries no form value the code gets to read.
SlotKeyInputs == {"about_img", "not_a_real_slot"}
CategoryInputs == {"damas", "invalid_category"}

\* A gallery item that is on disk before the process starts.
OldItem == [id |-> 1, url |-> 1, public_id |-> 1, category |-> "pedicura"]

\* Files the process can find at start: none, an unparseable one, and JSON
\* objects: {}, one with no "gallery" whose "slots" lacks keys and has an
\* extra one, and a complete one with a video and a gallery item.
InitFiles ==
    { AbsentFile,
      CorruptFile,
      [kind |-> "json", hero |-> << >>, slots |-> << >>, gallery |-> << >>],
      [kind |-> "json", hero |-> << JsonVal(Null) >>,
       slots |-> << {<<"servicio_1", JsonVal(1)>>, <<"promo_banner", JsonVal(1)>>} >>,
       gallery |-> << >>],
      json_dump([DefaultContentLiteral EXCEPT
                   !.heroVideo = 1, !.gallery = << OldItem >>]) }

Init ==
    /\ USE_CLOUDINARY \in BOOLEAN
    /\ file \in InitFiles
    /\ DEFAULT_CONTENT = DefaultContentLiteral
    /\ LOCK = 0
    /\ loop = 0
    /\ media = IF file.gallery # << >> /\ file.gallery # << << >> >> THEN {1} ELSE {}
    /\ fresh = 2
    /\ nreq = 0
    /\ pc = [r \in Workers |-> "idle"]
    /\ req = [r \in Workers |-> NoReq]
    /\ data = [r \in Workers |-> "none"]
    /\ own = [r \in Workers |-> NoDoc]
    /\ url = [r \in Workers |-> Null]
    /\ idx = [r \in Workers |-> 0]
    /\ status = [r \in Workers |-> 0]
    /\ body = [r \in Workers |-> NoDoc]
    /\ steps = [r \in Workers |-> {}]
    /\ added = {}
    /\ deleted = {}
    /\ lastSaved = << >>
    /\ returned = [k \in {"heroVideo"} \cup FixedSlotKeys |-> Null]
    /\ file0 = file

\* ------------------------------------------------------------- helpers
\* The object the local `data` refers to.
Deref(r) == IF data[r] = "default" THEN DEFAULT_CONTENT ELSE own[r]

\* The upload handlers declared with `def`: each on a thread of its own.
OnLoop_def(r) == FALSE

\* `async def` handlers run on the event loop; `def` handlers on a thread.
OnLoop(r) == req[r].op \in UploadOps

\* item = {"id": str(uuid4()), "url": url, "public_id": public_id, "category": category}
NewItem(r) ==
    [id |-> url[r], url |-> url[r], public_id |-> url[r], category |-> req[r].category]

\* The lookup that settles for the first item when the id is not there.
FindIdx_first(gallery, item_id) ==
    IF \E i \in 1..Len(gallery) : gallery[i].id = item_id
    THEN CHOOSE i \in 1..Len(gallery) :
            /\ gallery[i].id = item_id
            /\ \A j \in 1..(i - 1) : gallery[j].id # item_id
    ELSE IF gallery # << >> THEN 1 ELSE 0

\* next((i for i, it in enumerate(gallery) if it["id"] == item_id), None); 0 is None.
FindIdx(gallery, item_id) ==
    IF \E i \in 1..Len(gallery) : gallery[i].id = item_id
    THEN CHOOSE i \in 1..Len(gallery) :
            /\ gallery[i].id = item_id
            /\ \A j \in 1..(i - 1) : gallery[j].id # item_id
    ELSE 0

\* del gallery[0]: the index forgotten.
DelAt_first(gallery, i) == [j \in 1..(Len(gallery) - 1) |-> gallery[j + 1]]

\* del gallery[idx]
DelAt(gallery, i) ==
    [j \in 1..(Len(gallery) - 1) |-> IF j < i THEN gallery[j] ELSE gallery[j + 1]]

\* The handler returns or raises: the response (status st, document b) is
\* there, the handler's `data` is gone, the event loop is free again.  `last`
\* is the step the handler did in this very action.
Respond(r, st, b, last) ==
    /\ pc' = [pc EXCEPT ![r] = "done"]
    /\ status' = [status EXCEPT ![r] = st]
    /\ body' = [body EXCEPT ![r] = b]
    /\ steps' = [steps EXCEPT ![r] = @ \cup last]
    /\ data' = [data EXCEPT ![r] = "none"]
    /\ own' = [own EXCEPT ![r] = NoDoc]
    /\ idx' = [idx EXCEPT ![r] = 0]
    /\ loop' = IF loop = r THEN 0 ELSE loop

\* -------------------------------------------------------------- actions
\* A request arrives and takes the first free request slot.  The id of a delete
\* request is one a client can know (the old item's, or one an upload
\* returned) or one that names nothing (Null).
Request(r) ==
    /\ pc[r] = "idle"
    /\ \A q \in 1..(r - 1) : pc[q] # "idle"
    /\ \E o \in Ops, t \in BOOLEAN, k \in SlotKeyInputs, c \in CategoryInputs,
          i \in {Null, OldItem.id} \cup added :
          /\ o \in ReadOps => ~t
          /\ (o = "upload_slot_image" /\ t) \/ k = "about_img"
          /\ (o = "upload_gallery_image" /\ t) \/ c = "damas"
          /\ (o = "delete_gallery_image" /\ t) \/ i = Null
          /\ req' = [req EXCEPT ![r] =
                        [op |-> o, token_ok |-> t,
                         slot_key |-> IF o = "upload_slot_image" /\ t THEN k ELSE "",
                         category |-> IF o = "upload_gallery_image" /\ t THEN c ELSE "",
                         item_id |-> i]]
          /\ pc' = [pc EXCEPT ![r] = IF o \in ReadOps THEN "load" ELSE "verify"]
    /\ nreq' = nreq + 1
    /\ UNCHANGED <<USE_CLOUDINARY, file, DEFAULT_CONTENT, LOCK, loop, media, fresh,
                   data, own, url, idx, status, body, steps, added, deleted,
                   lastSaved, returned, file0>>

\* The response has been sent: the request slot is free again.
Close(r) ==
    /\ pc[r] = "done"
    /\ pc' = [pc EXCEPT ![r] = "idle"]
    /\ req' = [req EXCEPT ![r] = NoReq]
    /\ url' = [url EXCEPT ![r] = Null]
    /\ status' = [status EXCEPT ![r] = 0]
    /\ body' = [body EXCEPT ![r] = NoDoc]
    /\ steps' = [steps EXCEPT ![r] = {}]
    /\ UNCHANGED <<USE_CLOUDINARY, file, DEFAULT_CONTENT, LOCK, loop, media, fresh,
                   data, own, idx, histVars>>

\* verify_token with the comparison left out: every token passes.
VerifyToken_open(r) ==
    /\ pc[r] = "verify"
    /\ pc' = [pc EXCEPT ![r] = IF req[r].op \in UploadOps THEN "validate" ELSE "load"]
    /\ UNCHANGED <<USE_CLOUDINARY, file, DEFAULT_CONTENT, LOCK, loop, media, fresh,
                   req, data, own, url, idx, status, body, steps, histVars>>

\* verify_token: Depends(verify_token) of the four mutating endpoints.
VerifyToken(r) ==
    /\ pc[r] = "verify"
    /\ IF ~req[r].token_ok
       THEN /\ Respond(r, 401, NoDoc, {})
       ELSE /\ pc' = [pc EXCEPT ![r] =
                        IF req[r].op \in UploadOps THEN "validate" ELSE "load"]
            /\ UNCHANGED <<data, own, idx, status, body, steps, loop>>
    /\ UNCHANGED <<USE_CLOUDINARY, file, DEFAULT_CONTENT, LOCK, media, fresh,
                   req, url, histVars>>

\* The checks with the slot_key test left out.
Validation_nokey(r) ==
    IF req[r].op = "upload_gallery_image" /\ req[r].category \notin ValidCategories
    THEN 400
    ELSE 0

\* What the handler's checks before the upload say: 0 to go on, or the status
\* raised (lines 147-148, 184-188, 235-239; an UploadFile is never falsy).
Validation(r) ==
    IF req[r].op = "upload_slot_image" /\ req[r].slot_key \notin VALID_SLOTS
    THEN 400
    ELSE IF req[r].op = "upload_gallery_image" /\ req[r].category \notin ValidCategories
    THEN 400
    ELSE 0

\* The body of an upload handler starts on the event loop and runs up to the
\* upload: with Cloudinary it keeps the loop (the upload is a blocking call),
\* with local storage it gives the loop up at `await file.read()`.
Validate(r) ==
    /\ pc[r] = "validate"
    /\ OnLoop(r) => loop = 0
    /\ IF Validation(r) # 0
       THEN /\ Respond(r, Validation(r), NoDoc, {})
       ELSE /\ pc' = [pc EXCEPT ![r] = "store"]
            /\ loop' = IF OnLoop(r) /\ USE_CLOUDINARY THEN r ELSE loop
            /\ UNCHANGED <<data, own, idx, status, body, steps>>
    /\ UNCHANGED <<USE_CLOUDINARY, file, DEFAULT_CONTENT, LOCK, media, fresh,
                   req, url, histVars>>

\* The Store step with its failure not raised: the handler goes on to
\* load_content with no url.
Store_goes_on(r) ==
    /\ pc[r] = "store"
    /\ OnLoop(r) => loop = IF USE_CLOUDINARY THEN r ELSE 0
    /\ \E ok \in BOOLEAN :
          /\ url' = [url EXCEPT ![r] = IF ok THEN fresh ELSE Null]
          /\ media' = IF ok THEN media \cup {fresh} ELSE media
          /\ fresh' = IF ok THEN fresh + 1 ELSE fresh
    /\ steps' = [steps EXCEPT ![r] = @ \cup {"store"}]
    /\ pc' = [pc EXCEPT ![r] = "load"]
    /\ loop' = IF OnLoop(r) THEN r ELSE loop
    /\ UNCHANGED <<USE_CLOUDINARY, file, DEFAULT_CONTENT, LOCK, req, data, own,
                   idx, status, body, histVars>>

\* The Store step: cloudinary.uploader.upload, or the write under UPLOADS_DIR.
\* It fails (HTTP 500) or returns a fresh url and public_id.
Store(r) ==
    /\ pc[r] = "store"
    /\ OnLoop(r) => loop = IF USE_CLOUDINARY THEN r ELSE 0
    /\ \E ok \in BOOLEAN :
          IF ok
          THEN /\ url' = [url EXCEPT ![r] = fresh]
               /\ media' = media \cup {fresh}
               /\ fresh' = fresh + 1
               /\ steps' = [steps EXCEPT ![r] = @ \cup {"store"}]
               /\ pc' = [pc EXCEPT ![r] = "load"]
               /\ loop' = IF OnLoop(r) THEN r ELSE loop
               /\ UNCHANGED <<data, own, idx, status, body>>
          ELSE /\ Respond(r, 500, NoDoc, {"store"})
               /\ UNCHANGED <<url, media, fresh>>
    /\ UNCHANGED <<USE_CLOUDINARY, file, DEFAULT_CONTENT, LOCK, req, histVars>>

\* Where a handler goes after data = load_content().
AfterLoad(r) ==
    IF req[r].op \in ReadOps THEN "respond"
    ELSE IF req[r].op = "delete_gallery_image" THEN "find"
    ELSE "mutate"

\* `with LOCK:` at the top of load_content and of save_content: the caller
\* waits until the lock is free and takes it.  An `async def` handler waits
\* on the event-loop thread, which it keeps.
\* (Acquire_nowait: the lock taken without waiting for it.)
Acquire_nowait(r) ==
    /\ pc[r] \in {"load", "save"}
    /\ OnLoop(r) => loop = r
    /\ LOCK' = r
    /\ pc' = [pc EXCEPT ![r] = IF pc[r] = "load" THEN "loading" ELSE "saving"]
    /\ UNCHANGED <<USE_CLOUDINARY, file, DEFAULT_CONTENT, loop, media, fresh,
                   req, data, own, url, idx, status, body, steps, histVars>>

Acquire(r) ==
    /\ pc[r] \in {"load", "save"}
    /\ LOCK = 0
    /\ OnLoop(r) => loop = r
    /\ LOCK' = r
    /\ pc' = [pc EXCEPT ![r] = IF pc[r] = "load" THEN "loading" ELSE "saving"]
    /\ UNCHANGED <<USE_CLOUDINARY, file, DEFAULT_CONTENT, loop, media, fresh,
                   req, data, own, url, idx, status, body, steps, histVars>>

\* load_content writing the merged document back to the file ("self-healing").
load_content_heal(r) ==
    /\ pc[r] = "loading"
    /\ OnLoop(r) => loop = r
    /\ steps' = [steps EXCEPT ![r] = @ \cup {"load"}]
    /\ IF file.kind = "absent"
       THEN /\ UNCHANGED LOCK
            /\ pc' = [pc EXCEPT ![r] = "save_in_load"]
            /\ UNCHANGED <<data, own, DEFAULT_CONTENT, file>>
       ELSE IF file.kind = "corrupt"
       THEN /\ data' = [data EXCEPT ![r] = "default"]
            /\ DEFAULT_CONTENT' =
                   merge_defaults(AsLoaded(DEFAULT_CONTENT), DEFAULT_CONTENT)
            /\ file' = json_dump(DEFAULT_CONTENT')
            /\ pc' = [pc EXCEPT ![r] = AfterLoad(r)]
            /\ LOCK' = 0
            /\ UNCHANGED own
       ELSE /\ data' = [data EXCEPT ![r] = "own"]
            /\ own' = [own EXCEPT ![r] = merge_defaults(json_load(file), DEFAULT_CONTENT)]
            /\ file' = json_dump(own'[r])
            /\ pc' = [pc EXCEPT ![r] = AfterLoad(r)]
            /\ LOCK' = 0
            /\ UNCHANGED DEFAULT_CONTENT
    /\ UNCHANGED <<USE_CLOUDINARY, loop, media, fresh, req, url, idx,
                   status, body, histVars>>

\* load_content returning from inside the `with`, the lock still held.
load_content_keeps(r) ==
    /\ pc[r] = "loading"
    /\ OnLoop(r) => loop = r
    /\ steps' = [steps EXCEPT ![r] = @ \cup {"load"}]
    /\ IF file.kind = "absent"
       THEN /\ pc' = [pc EXCEPT ![r] = "save_in_load"]
            /\ UNCHANGED <<data, own, DEFAULT_CONTENT>>
       ELSE IF file.kind = "corrupt"
       THEN /\ data' = [data EXCEPT ![r] = "default"]
            /\ DEFAULT_CONTENT' =
                   merge_defaults(AsLoaded(DEFAULT_CONTENT), DEFAULT_CONTENT)
            /\ pc' = [pc EXCEPT ![r] = AfterLoad(r)]
            /\ UNCHANGED own
       ELSE /\ data' = [data EXCEPT ![r] = "own"]
            /\ own' = [own EXCEPT ![r] = merge_defaults(json_load(file), DEFAULT_CONTENT)]
            /\ pc' = [pc EXCEPT ![r] = AfterLoad(r)]
            /\ UNCHANGED DEFAULT_CONTENT
    /\ UNCHANGED <<USE_CLOUDINARY, file, LOCK, loop, media, fresh, req, url, idx,
                   status, body, histVars>>

\* The body of load_content(), run with LOCK held, and the release at the end
\* of the `with`.  With no file it calls save_content, which waits for the LOCK
\* the caller holds: the request stays there, the lock with it.  A file that
\* does not parse makes `data` the DEFAULT_CONTENT object itself.
load_content(r) ==
    /\ pc[r] = "loading"
    /\ OnLoop(r) => loop = r
    /\ steps' = [steps EXCEPT ![r] = @ \cup {"load"}]
    /\ IF file.kind = "absent"
       THEN /\ UNCHANGED LOCK
            /\ pc' = [pc EXCEPT ![r] = "save_in_load"]
            /\ UNCHANGED <<data, own, DEFAULT_CONTENT>>
       ELSE IF file.kind = "corrupt"
       THEN /\ data' = [data EXCEPT ![r] = "default"]
            /\ DEFAULT_CONTENT' =
                   merge_defaults(AsLoaded(DEFAULT_CONTENT), DEFAULT_CONTENT)
            /\ pc' = [pc EXCEPT ![r] = AfterLoad(r)]
            /\ LOCK' = 0
            /\ UNCHANGED own
       ELSE /\ data' = [data EXCEPT ![r] = "own"]
            /\ own' = [own EXCEPT ![r] = merge_defaults(json_load(file), DEFAULT_CONTENT)]
            /\ pc' = [pc EXCEPT ![r] = AfterLoad(r)]
            /\ LOCK' = 0
            /\ UNCHANGED DEFAULT_CONTENT
    /\ UNCHANGED <<USE_CLOUDINARY, file, loop, media, fresh, req, url, idx,
                   status, body, histVars>>

\* get_content / get_gallery build the response from `data`.
Project(r) ==
    /\ pc[r] = "respond"
    /\ Respond(r, 200,
               IF req[r].op = "get_gallery"
               THEN [NoDoc EXCEPT !.gallery = Deref(r).gallery]
               ELSE Deref(r),
               {})
    /\ UNCHANGED <<USE_CLOUDINARY, file, DEFAULT_CONTENT, LOCK, media, fresh,
                   req, url, histVars>>

\* delete_gallery_image lines 277-282: look the id up, 404 if it is not there.
Find(r) ==
    /\ pc[r] = "find"
    /\ LET i == FindIdx(Deref(r).gallery, req[r].item_id)
       IN  IF i = 0
           THEN /\ Respond(r, 404, NoDoc, {})
                /\ UNCHANGED url
           ELSE /\ idx' = [idx EXCEPT ![r] = i]
                /\ url' = [url EXCEPT ![r] = Deref(r).gallery[i].public_id]
                /\ pc' = [pc EXCEPT ![r] = "destroy"]
                /\ UNCHANGED <<data, own, status, body, steps, loop>>
    /\ UNCHANGED <<USE_CLOUDINARY, file, DEFAULT_CONTENT, LOCK, media, fresh,
                   req, histVars>>

\* The backend delete with its failure let through: the request ends with 500.
Destroy_raises(r) ==
    /\ pc[r] = "destroy"
    /\ \E ok \in BOOLEAN :
          IF ok
          THEN /\ media' = media \ {url[r]}
               /\ steps' = [steps EXCEPT ![r] = @ \cup {"destroy"}]
               /\ pc' = [pc EXCEPT ![r] = "mutate"]
               /\ UNCHANGED <<data, own, idx, status, body, loop>>
          ELSE /\ Respond(r, 500, NoDoc, {"destroy"})
               /\ UNCHANGED media
    /\ UNCHANGED <<USE_CLOUDINARY, file, DEFAULT_CONTENT, LOCK, fresh,
                   req, url, histVars>>

\* delete_gallery_image lines 285-298: the backend delete; a failure is swallowed.
Destroy(r) ==
    /\ pc[r] = "destroy"
    /\ \E ok \in BOOLEAN : media' = IF ok THEN media \ {url[r]} ELSE media
    /\ steps' = [steps EXCEPT ![r] = @ \cup {"destroy"}]
    /\ pc' = [pc EXCEPT ![r] = "mutate"]
    /\ UNCHANGED <<USE_CLOUDINARY, file, DEFAULT_CONTENT, LOCK, loop, fresh,
                   req, data, own, url, idx, status, body, histVars>>

\* The handler's assignment with the one of upload_hero_video left out.
Mutated_nohero(r, d) ==
    IF req[r].op = "upload_hero_video" THEN d
    ELSE IF req[r].op = "upload_slot_image"
    THEN [d EXCEPT !.slots = [k \in DOMAIN d.slots \cup {req[r].slot_key} |->
                                  IF k = req[r].slot_key THEN url[r] ELSE d.slots[k]]]
    ELSE IF req[r].op = "upload_gallery_image"
    THEN [d EXCEPT !.gallery = Append(d.gallery, NewItem(r))]
    ELSE [d EXCEPT !.gallery = DelAt(d.gallery, idx[r])]

\* The handler's assignment with the gallery replaced in place of the append.
Mutated_clobber(r, d) ==
    IF req[r].op = "upload_hero_video" THEN [d EXCEPT !.heroVideo = url[r]]
    ELSE IF req[r].op = "upload_slot_image"
    THEN [d EXCEPT !.slots = [k \in DOMAIN d.slots \cup {req[r].slot_key} |->
                                  IF k = req[r].slot_key THEN url[r] ELSE d.slots[k]]]
    ELSE IF req[r].op = "upload_gallery_image"
    THEN [d EXCEPT !.gallery = << NewItem(r) >>]
    ELSE [d EXCEPT !.gallery = DelAt(d.gallery, idx[r])]

\* The document after the handler's assignment to `data`.
Mutated(r, d) ==
    IF req[r].op = "upload_hero_video" THEN [d EXCEPT !.heroVideo = url[r]]
    ELSE IF req[r].op = "upload_slot_image"
    THEN [d EXCEPT !.slots = [k \in DOMAIN d.slots \cup {req[r].slot_key} |->
                                  IF k = req[r].slot_key THEN url[r] ELSE d.slots[k]]]
    ELSE IF req[r].op = "upload_gallery_image"
    THEN [d EXCEPT !.gallery = Append(d.gallery, NewItem(r))]
    ELSE [d EXCEPT !.gallery = DelAt(d.gallery, idx[r])]

\* The assignment between load_content and save_content (lines 171, 212, 269,
\* 301-302).  It changes the object `data` refers to, DEFAULT_CONTENT included.
\* `del gallery[idx]` raises IndexError when the list got shorter meanwhile.
Mutate(r) ==
    /\ pc[r] = "mutate"
    /\ OnLoop(r) => loop = r
    /\ IF req[r].op = "delete_gallery_image" /\ idx[r] > Len(Deref(r).gallery)
       THEN /\ Respond(r, 500, NoDoc, {})
            /\ UNCHANGED DEFAULT_CONTENT
       ELSE /\ pc' = [pc EXCEPT ![r] = "save"]
            /\ IF data[r] = "default"
               THEN /\ DEFAULT_CONTENT' = Mutated(r, DEFAULT_CONTENT)
                    /\ UNCHANGED own
               ELSE /\ own' = [own EXCEPT ![r] = Mutated(r, own[r])]
                    /\ UNCHANGED DEFAULT_CONTENT
            /\ UNCHANGED <<data, idx, status, body, steps, loop>>
    /\ UNCHANGED <<USE_CLOUDINARY, file, LOCK, media, fresh, req, url, histVars>>

\* The body of save_content(data), run with LOCK held, the release, and the
\* handler's return of 200 with url and public_id.
save_content(r) ==
    /\ pc[r] = "saving"
    /\ OnLoop(r) => loop = r
    /\ file' = json_dump(Deref(r))
    /\ LOCK' = 0
    /\ lastSaved' = << Deref(r) >>
    /\ returned' = IF req[r].op = "upload_hero_video"
                   THEN [returned EXCEPT !["heroVideo"] = url[r]]
                   ELSE IF req[r].op = "upload_slot_image"
                   THEN [returned EXCEPT ![req[r].slot_key] = url[r]]
                   ELSE returned
    /\ added' = IF req[r].op = "upload_gallery_image" THEN added \cup {url[r]} ELSE added
    /\ deleted' = IF req[r].op = "delete_gallery_image"
                  THEN deleted \cup {req[r].item_id} ELSE deleted
    /\ Respond(r, 200, NoDoc, {"save"})
    /\ UNCHANGED <<USE_CLOUDINARY, DEFAULT_CONTENT, media, fresh, req, url,
                   nreq, file0>>

\* ------------------------------------------------------- specifications
Step(r) ==
    \/ Close(r)
    \/ VerifyToken(r)
    \/ Validate(r)
    \/ Store(r)
    \/ Acquire(r)
    \/ load_content(r)
    \/ Project(r)
    \/ Find(r)
    \/ Destroy(r)
    \/ Mutate(r)
    \/ save_content(r)

Next == \E r \in Workers : (nreq < MaxRequests /\ Request(r)) \/ Step(r)

Spec == Init /\ [][Next]_vars

\* One request at a time: a client that waits for each response before it
\* sends the next request ("no concurrent writer").
Alone(r) == \A q \in Workers \ {r} : pc[q] = "idle"

NextSeq ==
    \E r \in Workers : Alone(r) /\ ((nreq < MaxSeqRequests /\ Request(r)) \/ Step(r))

SpecSeq == Init /\ [][NextSeq]_vars

\* ------------------------------------------------------ claim vocabulary
\* The gallery on disk, as a list of items (empty when there is no readable one).
PersistedGallery == json_load(file).gallery
Ids(g) == {g[i].id : i \in 1..Len(g)}

\* Request r executes load_content / save_content in this step.
Loads(r) == pc[r] = "loading" /\ pc'[r] # "loading"
Saves(r) == pc[r] = "saving" /\ pc'[r] # "saving"

\* Request r is a mutating request between its Load and the end of its Save.
InPair(r) ==
    /\ req[r].op \in MutatingOps
    /\ pc[r] \in {"find", "destroy", "mutate", "save", "saving"}

\* C1: between a mutating request's Load and its own Save no other request
\* executes a Load or a Save (the pair is one critical section).
C1_PairSerialized ==
    [][\A r \in Workers : InPair(r) =>
          \A q \in Workers \ {r} : ~Loads(q) /\ ~Saves(q)]_vars

\* C2: a Load that finds no persisted document completes: the default document
\* is on disk, the caller has the default document, and LOCK is free again.
C2_BootstrapCompletes ==
    \A r \in Workers :
        (file0.kind = "absent" /\ "load" \in steps[r]) =>
            /\ pc[r] # "save_in_load"
            /\ LOCK = 0
            /\ file = json_dump(DefaultContentLiteral)

\* C3: as long as no DeleteGalleryImage has succeeded or is in flight, the
\* persisted gallery holds the G items it started with plus one item per
\* completed AddGalleryImage, the returned items among them, all ids distinct.
C3_ConcurrentAdds ==
    (deleted = {} /\ \A r \in Workers : req[r].op # "delete_gallery_image") =>
        /\ Len(PersistedGallery) = Len(json_load(file0).gallery) + Cardinality(added)
        /\ added \subseteq Ids(PersistedGallery)
        /\ Cardinality(Ids(PersistedGallery)) = Len(PersistedGallery)

\* Two AddGalleryImage requests that were in flight together have both
\* completed, on top of a gallery that already held an item.
C3_Witness ==
    /\ Cardinality(added) = 2
    /\ deleted = {}
    /\ Len(json_load(file0).gallery) = 1
    /\ \A r \in {1, 2} : pc[r] = "done" /\ req[r].op = "upload_gallery_image"
    /\ Len(PersistedGallery) = 3

\* C4: an item a completed AddGalleryImage returned leaves the persisted
\* gallery only in the Save of a DeleteGalleryImage for its id.
C4_ItemStaysUntilDeleted ==
    [][\A i \in added :
          (i \in Ids(PersistedGallery) /\ i \notin Ids(PersistedGallery')) =>
              \E r \in Workers : /\ Saves(r)
                                 /\ req[r].op = "delete_gallery_image"
                                 /\ req[r].item_id = i]_vars

\* C5: every document Load returned, and every document the API persisted,
\* has exactly the fixed slot keys.
C5_FixedKeySet ==
    /\ \A r \in Workers : data[r] # "none" => DOMAIN Deref(r).slots = FixedSlotKeys
    /\ lastSaved # << >> => DOMAIN lastSaved[1].slots = FixedSlotKeys

\* C6: a Load of an unparseable file returns the default document (null
\* video, every fixed slot null, empty gallery), whatever happened before.
C6_CorruptLoadsDefault ==
    [][\A r \in Workers : (Loads(r) /\ file.kind = "corrupt") =>
          (IF data'[r] = "default" THEN DEFAULT_CONTENT' ELSE own'[r])
              = DefaultContentLiteral]_vars

\* C7: a Load of a file that exists, and every step of GetContent and
\* GetGallery, leaves the file as it is.
C7_LoadKeepsFile ==
    [][\A r \in Workers :
          (/\ file.kind # "absent"
           /\ Loads(r) \/ (req[r].op \in ReadOps /\ pc'[r] # pc[r]))
          => file' = file]_vars

\* A request has loaded an unparseable file, which is still there.
C7_Witness ==
    \E r \in Workers :
        /\ "load" \in steps[r]
        /\ data[r] = "default"
        /\ file.kind = "corrupt"

\* C8: a Load that follows a Save(d) returns d, field for field.
C8_RoundTrip ==
    [][\A r \in Workers : (Loads(r) /\ lastSaved # << >>) =>
          (data'[r] = "own" /\ own'[r] = lastSaved[1])]_vars

\* A request has just loaded what the last Save wrote: a document with a
\* non-null slot or a gallery item in it.
C8_Witness ==
    \E r \in Workers :
        /\ pc[r] \in {"respond", "find"}
        /\ lastSaved # << >>
        /\ data[r] = "own" /\ own[r] = lastSaved[1]
        /\ \/ own[r].gallery # << >>
           \/ \E k \in DOMAIN own[r].slots : own[r].slots[k] # Null

\* C9 (one request at a time): once DeleteGalleryImage(X.id) has succeeded for
\* an item X that AddGalleryImage returned, X.id is not in the persisted
\* gallery, no GetGallery response holds it, and a further
\* DeleteGalleryImage(X.id) gets nowhere but to 404.
C9_DeleteCorrectness ==
    \A i \in added \cap deleted :
        /\ i \notin Ids(PersistedGallery)
        /\ \A r \in Workers :
              /\ (pc[r] = "done" /\ req[r].op = "get_gallery")
                     => i \notin Ids(body[r].gallery)
              /\ (req[r].op = "delete_gallery_image" /\ req[r].item_id = i)
                     => \/ pc[r] \in {"verify", "load", "loading", "find"}
                        \/ pc[r] = "done" /\ status[r] = 200 /\ "save" \in steps[r]
                        \/ pc[r] = "done" /\ status[r] = 404 /\ steps[r] = {"load"}

\* The second DeleteGalleryImage of an added and deleted item answered 404.
C9_Witness ==
    \E r \in Workers :
        /\ pc[r] = "done"
        /\ req[r].op = "delete_gallery_image"
        /\ req[r].token_ok
        /\ req[r].item_id \in added \cap deleted
        /\ status[r] = 404

\* An authorized request with a slot key outside the fixed set, or a category
\* outside the closed list.
InvalidInput(r) ==
    /\ req[r].token_ok
    /\ \/ req[r].op = "upload_slot_image" /\ req[r].slot_key \notin FixedSlotKeys
       \/ /\ req[r].op = "upload_gallery_image"
          /\ req[r].category \notin {"damas", "caballeros", "ninos", "manicura", "pedicura"}

\* C10: such a request ends with 400 in the step that validates it, having done
\* no Store, Load or Save, and that step changes neither the file, nor the
\* media, nor the document in memory.
C10_ValidationRejects ==
    [][\A r \in Workers : (InvalidInput(r) /\ pc[r] = "validate" /\ pc'[r] # pc[r]) =>
          /\ pc'[r] = "done"
          /\ status'[r] = 400
          /\ steps'[r] = {}
          /\ file' = file
          /\ media' = media
          /\ DEFAULT_CONTENT' = DEFAULT_CONTENT]_vars

\* A slot update with a key that is no slot was answered 400.
C10_Witness ==
    \E r \in Workers :
        /\ pc[r] = "done"
        /\ InvalidInput(r)
        /\ req[r].slot_key = "not_a_real_slot"
        /\ status[r] = 400
        /\ steps[r] = {}

C12_StoreFailureAborts ==
    [][\A r \in Workers : (pc[r] = "store" /\ pc'[r] # "store") =>
          \/ /\ pc'[r] = "load"
             /\ url'[r] # Null
             /\ url'[r] \in media'
          \/ /\ pc'[r] = "done"
             /\ status'[r] = 500
             /\ steps'[r] = {"store"}
             /\ file' = file
             /\ DEFAULT_CONTENT' = DEFAULT_CONTENT
             /\ lastSaved' = lastSaved]_vars

\* A gallery upload whose Store failed was answered 500; the file is the one
\* the process started with, gallery item included.
C12_Witness ==
    \E r \in Workers :
        /\ pc[r] = "done"
        /\ req[r].op = "upload_gallery_image"
        /\ status[r] = 500
        /\ steps[r] = {"store"}
        /\ file = file0
        /\ Len(PersistedGallery) = 1

\* C13: a DeleteGalleryImage that found its id in the gallery it loaded goes
\* on from the backend delete to the removal and the Save whether the backend
\* delete took the media away or failed; it raises nothing on the way, its
\* Save writes a gallery without that id, and the response is 200.
C13_DeleteSwallowsFailure ==
    [][\A r \in Workers : req[r].op = "delete_gallery_image" =>
          /\ (pc[r] = "destroy" /\ pc'[r] # "destroy") =>
                 (pc'[r] = "mutate" /\ status'[r] = 0)
          /\ (pc[r] = "mutate" /\ pc'[r] # "mutate") =>
                 (pc'[r] = "save" /\ status'[r] = 0)
          /\ (pc[r] = "save" /\ pc'[r] # "save") => pc'[r] = "saving"
          /\ Saves(r) =>
                 /\ pc'[r] = "done"
                 /\ status'[r] = 200
                 /\ steps'[r] = {"load", "destroy", "save"}
                 /\ req[r].item_id \notin Ids(PersistedGallery')]_vars

\* A delete of the item on disk was answered 200 and the item is gone from
\* the file, while the media backend, whose delete failed, still holds it.
C13_Witness ==
    \E r \in Workers :
        /\ pc[r] = "done"
        /\ req[r].op = "delete_gallery_image"
        /\ req[r].item_id = OldItem.id
        /\ status[r] = 200
        /\ "destroy" \in steps[r]
        /\ OldItem.public_id \in media
        /\ OldItem.id \notin Ids(PersistedGallery)

\* C14: a DeleteGalleryImage whose id is not in the gallery it loaded is
\* answered 404 in the step that looks the id up: it has done its Load and
\* nothing else (no backend delete, no Save), and the step leaves the file, the
\* media and the documents in memory as they are.
C14_UnknownIdRejected ==
    [][\A r \in Workers :
          (/\ pc[r] = "find" /\ pc'[r] # "find"
           /\ req[r].item_id \notin Ids(Deref(r).gallery)) =>
              /\ pc'[r] = "done"
              /\ status'[r] = 404
              /\ steps'[r] = {"load"}
              /\ file' = file
              /\ media' = media
              /\ DEFAULT_CONTENT' = DEFAULT_CONTENT
              /\ lastSaved' = lastSaved]_vars

\* An authorized delete of an id that names nothing was answered 404 while the
\* gallery on disk holds an item, which is still there with its media.
C14_Witness ==
    \E r \in Workers :
        /\ pc[r] = "done"
        /\ req[r].op = "delete_gallery_image"
        /\ req[r].token_ok
        /\ req[r].item_id = Null
        /\ status[r] = 404
        /\ steps[r] = {"load"}
        /\ Ids(PersistedGallery) = {OldItem.id}
        /\ OldItem.public_id \in media

\* Request r is inside load_content or save_content: it reads or writes the
\* file, or (save_in_load) it is inside load_content waiting in save_content.
InFile(r) == pc[r] \in {"loading", "saving", "save_in_load"}

\* C15: at most one request is inside load_content or save_content, and it is
\* the one that holds LOCK: no Load runs while a Save is writing the file and
\* no two Saves write at the same time.
C15_MutualExclusion ==
    /\ \A r, q \in Workers : (InFile(r) /\ InFile(q)) => r = q
    /\ \A r \in Workers : InFile(r) => LOCK = r

\* A request is writing the file while another one waits for the lock, to
\* load or to save.
C15_Witness ==
    \E r, q \in Workers :
        /\ pc[r] = "saving"
        /\ LOCK = r
        /\ pc[q] \in {"load", "save"}

\* C16: a request holds LOCK only inside load_content and save_content, never
\* while it is at its media Store or its backend delete; an upload has done no
\* Load when it is at its Store, and has done the Store when it has loaded.
C16_BackendOutsideLock ==
    \A r \in Workers :
        /\ LOCK = r => InFile(r)
        /\ pc[r] \in {"store", "destroy"} => LOCK # r
        /\ pc[r] = "store" => steps[r] = {}
        /\ (req[r].op \in UploadOps /\ "load" \in steps[r]) => "store" \in steps[r]

\* A delete is at its backend call, after its Load, while another request
\* holds the lock; an upload is at its Store in the meantime or was before.
C16_Witness ==
    \E r, q \in Workers :
        /\ pc[r] = "destroy"
        /\ "load" \in steps[r]
        /\ LOCK = q
        /\ q # r
        /\ req[q].op \in UploadOps
        /\ "store" \in steps[q]

\* C17 (one request at a time): when UpdateHeroVideo has answered 200, the url
\* of its response is the one its Store returned (the media holds it) and it is
\* the heroVideo on disk; the same for UpdateSlotImage(k) and slots[k]; and a
\* GetContent response holds, in heroVideo and in every slot, the url of the
\* last 200 update of that field.
C17_UpdateVisible ==
    \A r \in Workers : (pc[r] = "done" /\ status[r] = 200) =>
        /\ req[r].op = "upload_hero_video" =>
              /\ url[r] \in media
              /\ json_load(file).heroVideo = url[r]
              /\ returned["heroVideo"] = url[r]
        /\ req[r].op = "upload_slot_image" =>
              /\ url[r] \in media
              /\ req[r].slot_key \in DOMAIN json_load(file).slots
              /\ json_load(file).slots[req[r].slot_key] = url[r]
              /\ returned[req[r].slot_key] = url[r]
        /\ req[r].op = "get_content" =>
              \A k \in DOMAIN returned : returned[k] # Null =>
                  IF k = "heroVideo" THEN body[r].heroVideo = returned[k]
                  ELSE k \in DOMAIN body[r].slots /\ body[r].slots[k] = returned[k]

\* A GetContent response that shows a video and a slot image, each the url
\* an earlier update returned.
C17_Witness ==
    \E r \in Workers :
        /\ pc[r] = "done"
        /\ req[r].op = "get_content"
        /\ status[r] = 200
        /\ returned["heroVideo"] # Null
        /\ returned["about_img"] # Null
        /\ body[r].heroVideo = returned["heroVideo"]
        /\ body[r].slots["about_img"] = returned["about_img"]

\* The file holds a JSON object with the three fields and every fixed slot key.
WellFormed(f) ==
    /\ f.kind = "json"
    /\ json_load(f).keys = {"heroVideo", "slots", "gallery"}
    /\ FixedSlotKeys \subseteq DOMAIN json_load(f).slots

\* C18: the document m a Load returns from a JSON file is a fixed point of the
\* merge, directly and through a Save and a Load; the merge kept every field
\* and every slot the file had, with its value; a well-formed file comes back
\* as it is; and the merge leaves DEFAULT_CONTENT, to which it is applied in
\* place when the file does not parse, as it was.
C18_MergeIdempotent ==
    [][\A r \in Workers : (Loads(r) /\ file.kind # "absent") =>
          IF file.kind = "corrupt"
          THEN DEFAULT_CONTENT' = DEFAULT_CONTENT
          ELSE LET raw == json_load(file)
                   m == own'[r]
               IN  /\ merge_defaults(AsLoaded(m), DEFAULT_CONTENT) = m
                   /\ merge_defaults(json_load(json_dump(m)), DEFAULT_CONTENT) = m
                   /\ "heroVideo" \in raw.keys => m.heroVideo = raw.heroVideo
                   /\ "gallery" \in raw.keys => m.gallery = raw.gallery
                   /\ "slots" \in raw.keys =>
                          \A k \in DOMAIN raw.slots :
                              k \in DOMAIN m.slots /\ m.slots[k] = raw.slots[k]
                   /\ WellFormed(file) =>
                          /\ json_dump(m) = file
                          /\ DOMAIN m.slots = DOMAIN raw.slots]_vars

\* A request has loaded the file that lacks "gallery" and most slot keys: the
\* document it has holds the slot value of the file and the missing keys.
C18_Witness ==
    \E r \in Workers :
        /\ data[r] = "own"
        /\ "load" \in steps[r]
        /\ file.kind = "json"
        /\ ~WellFormed(file)
        /\ "gallery" \notin json_load(file).keys
        /\ own[r].slots["servicio_1"] = 1
        /\ own[r].slots["about_img"] = Null
        /\ own[r].gallery = << >>

\* The document a file stands for: what a Load of it returns when nothing has
\* touched DEFAULT_CONTENT (a file that does not parse stands for the default).
DocOf(f) ==
    IF f.kind = "json" THEN merge_defaults(json_load(f), DefaultContentLiteral)
    ELSE DefaultContentLiteral

\* The gallery g without the items whose id is i, the others in their order.
Without(g, i) ==
    LET Keep(it) == it.id # i IN SelectSeq(g, Keep)

\* C19 (one request at a time): the Save of a mutating request changes the
\* document on disk in its own field only.  UpdateHeroVideo sets heroVideo,
\* UpdateSlotImage(k) sets slots[k], AddGalleryImage appends one item with a new
\* id, DeleteGalleryImage(id) takes out the one item with that id and keeps the
\* others in order; the other fields, slot keys and items are as before.
C19_FrameEffects ==
    [][\A r \in Workers : Saves(r) =>
          LET before == DocOf(file)
              after == DocOf(file')
              op == req[r].op
          IN  /\ file'.kind = "json"
              /\ op = "upload_hero_video" =>
                     after = [before EXCEPT !.heroVideo = url[r]]
              /\ op = "upload_slot_image" =>
                     /\ req[r].slot_key \in DOMAIN before.slots
                     /\ after = [before EXCEPT !.slots[req[r].slot_key] = url[r]]
              /\ op = "upload_gallery_image" =>
                     /\ Len(after.gallery) = Len(before.gallery) + 1
                     /\ after = [before EXCEPT
                                    !.gallery = Append(@, after.gallery[Len(after.gallery)])]
                     /\ after.gallery[Len(after.gallery)].id \notin Ids(before.gallery)
                     /\ after.gallery[Len(after.gallery)].url = url[r]
                     /\ after.gallery[Len(after.gallery)].category = req[r].category
              /\ op = "delete_gallery_image" =>
                     /\ req[r].item_id \in Ids(before.gallery)
                     /\ Len(after.gallery) = Len(before.gallery) - 1
                     /\ after = [before EXCEPT !.gallery = Without(@, req[r].item_id)]]_vars

\* The delete of the first of two gallery items was answered 200: the item
\* added later is the gallery now, and the video is the one from the start.
C19_Witness ==
    \E r \in Workers :
        /\ pc[r] = "done"
        /\ req[r].op = "delete_gallery_image"
        /\ req[r].item_id = OldItem.id
        /\ status[r] = 200
        /\ added # {}
        /\ Ids(PersistedGallery) = added
        /\ json_load(file).heroVideo = json_load(file0).heroVideo
        /\ json_load(file).heroVideo # Null

\* C20: the id of a DeleteGalleryImage that was answered 200 is in no later
\* state of the gallery on disk, whatever requests run beside it.
C20_DeletedStaysGone ==
    \A i \in deleted : i \notin Ids(PersistedGallery)

====
